---- MODULE Spec2Model ----
(***************************************************************************)
(* A model of the task store of Task_Manager: the Task entity and the      *)
(* TaskManager store of src/task_manager.py, with the persistence file it  *)
(* saves to and loads from; the ordering routines of src/utils.py and of   *)
(* UserInterface.display_tasks; and main() of src/main.py driving the      *)
(* store through the menu loop of src/user_interface.py.                   *)
(*                                                                         *)
(* Spec is the store driven directly by calls of its methods, MainSpec a   *)
(* run of main(), AnyUseSpec either of the two.                            *)
(*                                                                         *)
(* Python strings that the code trims or lower-cases (title, description,  *)
(* priority) are sequences of one-character strings, so that str.strip and *)
(* str.lower are computed character by character.  Ids and timestamps,     *)
(* which the code only produces, compares and copies, are TLA+ strings.    *)
(* The wall clock (datetime.now()) is an input: every reading is drawn     *)
(* from Clock, and nothing in the code orders two readings.                *)
(***************************************************************************)
EXTENDS Integers, Sequences, FiniteSets, TLC

\* ------------------------------------------------------------------ bounds
\* The number of calls made on the store in one behaviour.
MaxCalls == 3

\* src/task_manager.py:24  timestamp() * 1_000_000
UsPerSec == 1000000

\* The readings of datetime.now(): whole seconds and the microseconds within
\* the second.
Clock == {[sec |-> 0, us |-> 1], [sec |-> 1, us |-> 0]}

\* ----------------------------------------------------------------- strings
\* Python's None, where the other values of the field are TLA+ strings
\* (completed_at, return values).  No timestamp or id equals it.
None == "None"

\* An optional argument whose values are character sequences.
Absent == [some |-> FALSE, val |-> <<>>]
Some(v) == [some |-> TRUE, val |-> v]

Whitespace == {" ", "\t", "\n"}

Uppers == <<"A","B","C","D","E","F","G","H","I","J","K","L","M",
            "N","O","P","Q","R","S","T","U","V","W","X","Y","Z">>
Lowers == <<"a","b","c","d","e","f","g","h","i","j","k","l","m",
            "n","o","p","q","r","s","t","u","v","w","x","y","z">>

LowerChar(c) ==
    IF \E i \in 1..Len(Uppers) : Uppers[i] = c
    THEN Lowers[CHOOSE i \in 1..Len(Uppers) : Uppers[i] = c]
    ELSE c

\* str.lower()
Lower(s) == [i \in 1..Len(s) |-> LowerChar(s[i])]

RECURSIVE LStrip(_)
LStrip(s) ==
    IF s # <<>> /\ Head(s) \in Whitespace THEN LStrip(Tail(s)) ELSE s

RECURSIVE RStrip(_)
RStrip(s) ==
    IF s # <<>> /\ s[Len(s)] \in Whitespace
    THEN RStrip(SubSeq(s, 1, Len(s) - 1))
    ELSE s

\* str.strip()
Strip(s) == RStrip(LStrip(s))

\* Truth value of a Python string: non-empty.
Truthy(s) == s # <<>>

LOW == <<"l","o","w">>
MEDIUM == <<"m","e","d","i","u","m">>
HIGH == <<"h","i","g","h">>
PriorityLevels == {LOW, MEDIUM, HIGH}

\* ------------------------------------------------------------------- Task
\* str(int(datetime.now().timestamp() * 1_000_000))
generate_id(t) == ToString(t.sec * UsPerSec + t.us)

\* datetime.now().strftime("%Y-%m-%d %H:%M:%S"): the reading to the second.
Strftime(t) == ToString(t.sec)

\* Task.__init__ without the priority validation: the mutant of Task__init__.
Task__init__NoValidation(title, description, priority, t) ==
    [id |-> generate_id(t), title |-> title, description |-> description,
     priority |-> Lower(priority), completed |-> FALSE,
     created_at |-> Strftime(t), completed_at |-> None]

Task__init__(title, description, priority, t) ==
    [id |-> generate_id(t),
     title |-> title,
     description |-> description,
     priority |-> IF Lower(priority) \in PriorityLevels
                  THEN Lower(priority) ELSE MEDIUM,
     completed |-> FALSE,
     created_at |-> Strftime(t),
     completed_at |-> None]

Task_mark_complete(task, t) ==
    [task EXCEPT !.completed = TRUE, !.completed_at = Strftime(t)]

\* mark_incomplete that forgets the timestamp: the mutant of Task_mark_incomplete.
Task_mark_incomplete_KeepStamp(task) ==
    [task EXCEPT !.completed = FALSE]

Task_mark_incomplete(task) ==
    [task EXCEPT !.completed = FALSE, !.completed_at = None]

Task_update(task, title, description, priority) ==
    LET t1 == IF title.some /\ Truthy(Strip(title.val))
              THEN [task EXCEPT !.title = Strip(title.val)] ELSE task
        t2 == IF description.some
              THEN [t1 EXCEPT !.description = description.val] ELSE t1
    IN  IF priority.some /\ Truthy(priority.val)
           /\ Lower(priority.val) \in PriorityLevels
        THEN [t2 EXCEPT !.priority = Lower(priority.val)]
        ELSE t2

to_dict(task) ==
    [id |-> task.id, title |-> task.title, description |-> task.description,
     priority |-> task.priority, completed |-> task.completed,
     created_at |-> task.created_at, completed_at |-> task.completed_at]

\* dict.get(key, default)
Get(data, key, default) == IF key \in DOMAIN data THEN data[key] ELSE default

\* from_dict raises KeyError when the record lacks "title" or "id".
from_dict_raises(data) == ~({"title", "id"} \subseteq DOMAIN data)

\* from_dict that keeps the fresh created_at: the mutant of from_dict.
from_dict_Regenerate(data, t) ==
    LET task == Task__init__(data["title"], Get(data, "description", <<>>),
                             Get(data, "priority", MEDIUM), t)
    IN  [task EXCEPT !.id = data["id"],
                     !.completed = Get(data, "completed", FALSE),
                     !.completed_at = Get(data, "completed_at", None)]

from_dict(data, t) ==
    LET task == Task__init__(data["title"], Get(data, "description", <<>>),
                             Get(data, "priority", MEDIUM), t)
    IN  [task EXCEPT !.id = data["id"],
                     !.completed = Get(data, "completed", FALSE),
                     !.created_at = Get(data, "created_at", Strftime(t)),
                     !.completed_at = Get(data, "completed_at", None)]

\* -------------------------------------------------------------- the store
VARIABLES
    tasks,  \* TaskManager.tasks: the ordered list of Task objects
    file,   \* the file named TaskManager.filename
    ret,    \* the last call and what it returned or raised
    calls,  \* the number of calls made so far
    pc      \* where main() is; constant when the store is driven directly

vars == <<tasks, file, ret, calls, pc>>

\* The persistence file: missing, not parseable as JSON, or a JSON list of
\* objects.  A JSON object is a record of the same keys; JSON strings, true,
\* false and null stand for the Python str, True, False and None that
\* json.dump writes them from and json.load reads them as.
FileAbsent == [kind |-> "absent", data |-> <<>>]
FileGarbage == [kind |-> "garbage", data |-> <<>>]
FileJson(data) == [kind |-> "json", data |-> data]

\* Records a file found at startup may hold.  from_dict reads every field but
\* "id" and "title" with a default, so records lacking fields are its inputs.
RecMinimal == [id |-> "0", title |-> <<"a">>]
RecUpper == [id |-> "0", title |-> <<"b">>, priority |-> <<"H","I","G","H">>,
             created_at |-> "9"]
RecFull == [id |-> "1", title |-> <<"a">>, description |-> <<"e">>,
            priority |-> LOW, completed |-> TRUE, created_at |-> "9",
            completed_at |-> "9"]
RecDoneNoStamp == [id |-> "1", title |-> <<"b">>, completed |-> TRUE]
RecBlankTitle == [id |-> "0", title |-> <<" ">>]
RecNoId == [title |-> <<"a">>]
RecNoTitle == [id |-> "0"]

\* The file at startup.  The ids within one file are distinct.
StartFiles ==
    {FileAbsent, FileGarbage,
     FileJson(<<RecUpper, RecFull>>),
     FileJson(<<RecMinimal, RecDoneNoStamp>>),
     FileJson(<<RecBlankTitle>>),
     FileJson(<<RecMinimal, RecNoId>>),
     FileJson(<<RecNoTitle>>)}

\* Inputs of the calls.
AddTitles == {<<>>, <<" ", " ">>, <<" ", "a">>}
AddDescriptions == {<<>>, <<"e", " ">>}
AddPriorities == {MEDIUM, <<"H","i","g","h">>, <<"u","r","g","e","n","t">>}
UpdateTitles == {Absent, Some(<<" ">>), Some(<<"b", " ">>)}
UpdateDescriptions == {Absent, Some(<<>>), Some(<<"e">>)}
UpdatePriorities ==
    {Absent, Some(<<>>), Some(<<" ">>), Some(<<"L","O","W">>),
     Some(<<"u","r","g","e","n","t">>)}
IdInputs == {generate_id(t) : t \in Clock} \cup {"0", "1", "404"}

\* A position of the program: where it is and, once the menu loop has been
\* left, how it was left.
At(at, exit) == [at |-> at, exit |-> exit]

\* The last call: its name, its first argument (the title given to add_task,
\* the id given to delete_task; None for the other calls), and the value it
\* returned or the exception it raised.
Returned(op, val) == [op |-> op, arg |-> None, raised |-> FALSE, val |-> val]
Raised(op, exc) == [op |-> op, arg |-> None, raised |-> TRUE, val |-> exc]

Init ==
    /\ tasks = <<>>
    /\ file \in StartFiles
    /\ ret = Returned("__init__", None)
    /\ calls = 0
    /\ pc = At("api", None)

\* The list without its i-th element: del self.tasks[i]
Del(s, i) == SubSeq(s, 1, i - 1) \o SubSeq(s, i + 1, Len(s))

\* The position of the first task with the id, 0 when there is none:
\* get_task returns that Task object (a live reference), or None.
get_task(ts, task_id) ==
    IF \E i \in 1..Len(ts) : ts[i].id = task_id
    THEN CHOOSE i \in 1..Len(ts) :
            /\ ts[i].id = task_id
            /\ \A j \in 1..(i - 1) : ts[j].id # task_id
    ELSE 0

\* add_task that tests the title without trimming it: the mutant of add_task.
add_task_NoStrip(title, description, priority, t) ==
    /\ calls < MaxCalls
    /\ calls' = calls + 1
    /\ UNCHANGED file
    /\ IF ~Truthy(title)
       THEN /\ tasks' = tasks
            /\ ret' = [Raised("add_task", "ValueError") EXCEPT !.arg = title]
       ELSE LET task == Task__init__(Strip(title), Strip(description), priority, t)
            IN  /\ tasks' = Append(tasks, task)
                /\ ret' = [Returned("add_task", task.id) EXCEPT !.arg = title]

add_task(title, description, priority, t) ==
    /\ calls < MaxCalls
    /\ calls' = calls + 1
    /\ UNCHANGED file
    /\ IF ~Truthy(Strip(title))
       THEN /\ tasks' = tasks
            /\ ret' = [Raised("add_task", "ValueError") EXCEPT !.arg = title]
       ELSE LET task == Task__init__(Strip(title), Strip(description), priority, t)
            IN  /\ tasks' = Append(tasks, task)
                /\ ret' = [Returned("add_task", task.id) EXCEPT !.arg = title]

\* delete_task that removes every task with the id: the mutant of delete_task.
delete_task_All(task_id) ==
    /\ calls < MaxCalls
    /\ calls' = calls + 1
    /\ UNCHANGED file
    /\ tasks' = SelectSeq(tasks, LAMBDA x : x.id # task_id)
    /\ ret' = [Returned("delete_task",
                        IF get_task(tasks, task_id) # 0 THEN "True" ELSE "False")
                EXCEPT !.arg = task_id]

delete_task(task_id) ==
    /\ calls < MaxCalls
    /\ calls' = calls + 1
    /\ UNCHANGED file
    /\ LET i == get_task(tasks, task_id)
       IN  IF i # 0
           THEN /\ tasks' = Del(tasks, i)
                /\ ret' = [Returned("delete_task", "True") EXCEPT !.arg = task_id]
           ELSE /\ tasks' = tasks
                /\ ret' = [Returned("delete_task", "False") EXCEPT !.arg = task_id]

\* task.mark_complete() on the i-th task of the store.
mark_complete(i, t) ==
    /\ calls < MaxCalls
    /\ calls' = calls + 1
    /\ UNCHANGED file
    /\ tasks' = [tasks EXCEPT ![i] = Task_mark_complete(tasks[i], t)]
    /\ ret' = Returned("mark_complete", None)

\* task.mark_incomplete() on the i-th task of the store.
mark_incomplete(i) ==
    /\ calls < MaxCalls
    /\ calls' = calls + 1
    /\ UNCHANGED file
    /\ tasks' = [tasks EXCEPT ![i] = Task_mark_incomplete(tasks[i])]
    /\ ret' = Returned("mark_incomplete", None)

\* task.update(title, description, priority) on the i-th task of the store.
update(i, title, description, priority) ==
    /\ calls < MaxCalls
    /\ calls' = calls + 1
    /\ UNCHANGED file
    /\ tasks' = [tasks EXCEPT ![i] = Task_update(tasks[i], title, description, priority)]
    /\ ret' = Returned("update", None)

\* What save_tasks hands to json.dump.
SavedData(ts) == [i \in 1..Len(ts) |-> to_dict(ts[i])]

\* save_tasks: open(filename, 'w') may fail and leave the file as it was; a
\* write that fails after the open leaves a truncated file.
save_tasks(outcome) ==
    /\ calls < MaxCalls
    /\ calls' = calls + 1
    /\ UNCHANGED tasks
    /\ CASE outcome = "ok" ->
                /\ file' = FileJson(SavedData(tasks))
                /\ ret' = Returned("save_tasks", None)
         [] outcome = "open fails" ->
                /\ file' = file
                /\ ret' = Raised("save_tasks", "OSError")
         [] outcome = "write fails" ->
                /\ file' = FileGarbage
                /\ ret' = Raised("save_tasks", "OSError")

\* [Task.from_dict(task_data) for task_data in data]
LoadedTasks(data, t) == [i \in 1..Len(data) |-> from_dict(data[i], t)]

\* A load that keeps the tasks in memory and appends the file's records, and
\* keeps the records read before the one that fails: the mutant of load_tasks.
load_tasks_Merge(t) ==
    /\ calls < MaxCalls
    /\ calls' = calls + 1
    /\ UNCHANGED file
    /\ CASE file.kind = "absent" ->
                /\ tasks' = tasks
                /\ ret' = Raised("load_tasks", "FileNotFoundError")
         [] file.kind = "garbage" ->
                /\ tasks' = tasks
                /\ ret' = Raised("load_tasks", "JSONDecodeError")
         [] file.kind = "json" ->
                IF \E i \in 1..Len(file.data) : from_dict_raises(file.data[i])
                THEN LET k == CHOOSE i \in 1..Len(file.data) :
                                /\ from_dict_raises(file.data[i])
                                /\ \A j \in 1..(i - 1) :
                                        ~from_dict_raises(file.data[j])
                     IN  /\ tasks' = tasks \o LoadedTasks(
                                        SubSeq(file.data, 1, k - 1), t)
                         /\ ret' = Raised("load_tasks", "KeyError")
                ELSE /\ tasks' = tasks \o LoadedTasks(file.data, t)
                     /\ ret' = Returned("load_tasks", None)

load_tasks(t) ==
    /\ calls < MaxCalls
    /\ calls' = calls + 1
    /\ UNCHANGED file
    /\ CASE file.kind = "absent" ->
                /\ tasks' = tasks
                /\ ret' = Raised("load_tasks", "FileNotFoundError")
         [] file.kind = "garbage" ->
                /\ tasks' = tasks
                /\ ret' = Raised("load_tasks", "JSONDecodeError")
         [] file.kind = "json" ->
                IF \E i \in 1..Len(file.data) : from_dict_raises(file.data[i])
                THEN /\ tasks' = tasks
                     /\ ret' = Raised("load_tasks", "KeyError")
                ELSE /\ tasks' = LoadedTasks(file.data, t)
                     /\ ret' = Returned("load_tasks", None)

Next ==
    \/ \E title \in AddTitles, description \in AddDescriptions,
          priority \in AddPriorities, t \in Clock :
            add_task(title, description, priority, t) /\ UNCHANGED pc
    \/ \E task_id \in IdInputs : delete_task(task_id) /\ UNCHANGED pc
    \/ \E i \in 1..Len(tasks), t \in Clock :
            mark_complete(i, t) /\ UNCHANGED pc
    \/ \E i \in 1..Len(tasks) : mark_incomplete(i) /\ UNCHANGED pc
    \/ \E i \in 1..Len(tasks), title \in UpdateTitles,
          description \in UpdateDescriptions, priority \in UpdatePriorities :
            update(i, title, description, priority) /\ UNCHANGED pc
    \/ \E outcome \in {"ok", "open fails", "write fails"} :
            save_tasks(outcome) /\ UNCHANGED pc
    \/ \E t \in Clock : load_tasks(t) /\ UNCHANGED pc

Spec == Init /\ [][Next]_vars

\* ------------------------------------------------------------------ queries
\* self.tasks.copy()
get_all_tasks(ts) == ts

\* A pending query that does not filter: the mutant of get_pending_tasks.
get_pending_tasks_All(ts) == ts

get_pending_tasks(ts) == SelectSeq(ts, LAMBDA x : ~x.completed)

get_completed_tasks(ts) == SelectSeq(ts, LAMBDA x : x.completed)

\* get_stats.  completion_rate, a float in the code, is the fraction num/den.
get_stats(ts) ==
    LET total == Len(ts)
        completed == Len(get_completed_tasks(ts))
        pending == Len(get_pending_tasks(ts))
    IN  [total |-> total,
         completed |-> completed,
         pending |-> pending,
         completion_rate |-> IF total > 0
                             THEN [num |-> completed * 100, den |-> total]
                             ELSE [num |-> 0, den |-> 1],
         priority_counts |->
            [p \in PriorityLevels |->
                Cardinality({i \in 1..Len(ts) : ts[i].priority = p})]]

\* ------------------------------------------------------------------ display
\* priority_order = {"high": 0, "medium": 1, "low": 2}
priority_order == [p \in PriorityLevels |->
                     IF p = HIGH THEN 0 ELSE IF p = MEDIUM THEN 1 ELSE 2]

\* sorted(ts, key=...), key[i] being the key of ts[i]: the elements in
\* ascending order of their key, those of equal key in the order they have in
\* ts (Python's sort is stable).
sorted(ts, key) ==
    LET Before(j, i) == \/ key[j] < key[i]
                        \/ key[j] = key[i] /\ j < i
        Place(i) == Cardinality({j \in 1..Len(ts) : Before(j, i)}) + 1
    IN  [k \in 1..Len(ts) |-> ts[CHOOSE i \in 1..Len(ts) : Place(i) = k]]

\* utils.sort_tasks_by_priority: the key is the priority alone.
sort_tasks_by_priority(ts) ==
    sorted(ts, [i \in 1..Len(ts) |->
                    IF ts[i].priority \in DOMAIN priority_order
                    THEN priority_order[ts[i].priority] ELSE 1])

\* UserInterface.display_tasks(tasks): what it lists, in the order listed, or
\* the exception it raises.  An empty list prints "No tasks found."; for any
\* other list the grouping loop reads task.category of the first task, and
\* an object without that attribute raises AttributeError there, before any
\* task is printed and before the sort of each group by
\* (t.completed, priority_order[t.priority]) is reached.
display_tasks(ts) ==
    IF ts = <<>>
    THEN [raised |-> FALSE, val |-> None, listed |-> <<>>]
    ELSE IF "category" \notin DOMAIN ts[1]
         THEN [raised |-> TRUE, val |-> "AttributeError", listed |-> <<>>]
         ELSE [raised |-> FALSE, val |-> None,
               listed |-> sorted(ts, [i \in 1..Len(ts) |->
                                    (IF ts[i].completed THEN 3 ELSE 0)
                                        + priority_order[ts[i].priority]])]

\* ------------------------------------------------------ the program (main)
\* main() of main.py driving the store through UserInterface.run().  The
\* menu chain of run() is read with the branch for choice "15" at the level
\* of the other branches and remove_all_tasks as a method of UserInterface.
\* The methods of TaskManager are those of task_manager.py: a call of any
\* other name on it, or a read of an attribute Task does not have, raises
\* AttributeError.

\* [task for task in self.tasks if task.priority == priority.lower()]
get_tasks_by_priority(ts, priority) ==
    SelectSeq(ts, LAMBDA x : x.priority = Lower(priority))

\* q in s, for Python strings
Contains(s, q) ==
    \E i \in 1..(Len(s) - Len(q) + 1) : SubSeq(s, i, i + Len(q) - 1) = q

\* What the user may type at a prompt; get_user_input strips it.
TitleInputs == {Strip(x) : x \in AddTitles}
ConfirmInputs == {<<>>, <<"y">>, <<"Y">>, <<"n">>}
QueryInputs == {<<>>, <<"A">>, <<"z">>}
PriorityInputs == {<<>>, <<"H","i","g","h">>, LOW}
SubChoices == {"0", "1", "2", "3", "4"}

\* One pass of the loop of run() for a menu choice: the handler either
\* returns, and the loop goes on, or raises exc, which leaves run() and is
\* caught by main's "except Exception", which prints it and calls
\* sys.exit(1); the finally clause is next in both cases of leaving.
Handled(op, arg, exc) ==
    /\ pc.at = "run"
    /\ ret' = [op |-> op, arg |-> arg, raised |-> exc # None, val |-> exc]
    /\ pc' = IF exc = None THEN pc ELSE At("finally", "Exception")

\* main(), lines 13-28: the store is made empty, load_tasks is called, and
\*   - when it returns, get_all_categories() raises AttributeError inside
\*     the try, "except Exception" prints it and the program goes on;
\*   - when it raises FileNotFoundError, the handler calls
\*     create_default_categories(), which raises AttributeError inside the
\*     handler: nothing catches it and main() ends there;
\*   - when it raises anything else, "except Exception" prints it and the
\*     program goes on with the empty store.
main_startup(t) ==
    /\ pc.at = "start"
    /\ load_tasks(t)
    /\ pc' = IF ret'.raised /\ ret'.val = "FileNotFoundError"
             THEN At("end", "AttributeError")
             ELSE At("run", None)

\* UserInterface.add_task: an empty title returns; otherwise the first call
\* after the prompts is get_all_categories().
ui_add_task(title) ==
    /\ Handled("ui.add_task", title,
               IF ~Truthy(title) THEN None ELSE "AttributeError")
    /\ UNCHANGED <<tasks, file, calls>>

\* choices 2, 3, 4: display_tasks of all, pending, completed tasks
ui_view(choice) ==
    /\ LET view == CASE choice = "2" -> get_all_tasks(tasks)
                     [] choice = "3" -> get_pending_tasks(tasks)
                     [] choice = "4" -> get_completed_tasks(tasks)
       IN  Handled("ui.display_tasks", choice, display_tasks(view).val)
    /\ UNCHANGED <<tasks, file, calls>>

\* view_tasks_by_category: its first statement calls get_all_categories().
view_tasks_by_category == "AttributeError"

\* view_tasks_by_tag: reads task.tags of the first task; no task, no tag.
view_tasks_by_tag == IF tasks = <<>> THEN None ELSE "AttributeError"

ui_view_tasks_by(choice) ==
    /\ Handled("ui.view_tasks_by", choice,
               IF choice = "5" THEN view_tasks_by_category
                               ELSE view_tasks_by_tag)
    /\ UNCHANGED <<tasks, file, calls>>

\* manage_categories: "0" leaves the sub-menu; "1" and "3" call
\* get_all_categories(), "2" calls add_category(); remove_category() is
\* called by "3" after get_all_categories() has returned.
ui_manage_categories(choice) ==
    /\ Handled("ui.manage_categories", choice,
               IF choice = "0" THEN None ELSE "AttributeError")
    /\ UNCHANGED <<tasks, file, calls>>

\* mark_task_complete, mark_task_incomplete, edit_task, delete_task and
\* manage_tags: each returns when its list is empty and otherwise calls
\* display_tasks(list) first; the selection of a task and the change of the
\* store come after display_tasks has returned.
ui_select_and_change(choice) ==
    /\ LET list == CASE choice = "7" -> get_pending_tasks(tasks)
                     [] choice = "8" -> get_completed_tasks(tasks)
                     [] choice \in {"9", "10", "12"} -> get_all_tasks(tasks)
       IN  Handled("ui.select_and_change", choice, display_tasks(list).val)
    /\ UNCHANGED <<tasks, file, calls>>

\* view_statistics: prints stats['total'] .. stats['completion_rate'], then
\* stats['total_categories'], a key get_stats does not return.
ui_view_statistics ==
    /\ Handled("ui.view_statistics", None,
               IF "total_categories" \in DOMAIN get_stats(tasks)
               THEN None ELSE "KeyError")
    /\ UNCHANGED <<tasks, file, calls>>

\* search_tasks
ui_search_tasks(search_type, text) ==
    /\ LET matching ==
            SelectSeq(get_all_tasks(tasks),
                      LAMBDA x : \/ Contains(Lower(x.title), Lower(text))
                                 \/ Contains(Lower(x.description), Lower(text)))
           exc == CASE search_type = "1" ->
                        IF ~Truthy(text) THEN None
                        ELSE display_tasks(matching).val
                    [] search_type = "2" -> view_tasks_by_category
                    [] search_type = "3" -> view_tasks_by_tag
                    [] search_type = "4" ->
                        display_tasks(get_tasks_by_priority(tasks, text)).val
                    [] OTHER -> None
       IN  Handled("ui.search_tasks", search_type, exc)
    /\ UNCHANGED <<tasks, file, calls>>

\* remove_all_tasks: delete_all_tasks() is called when the answer is y or Y.
ui_remove_all_tasks(confirm) ==
    /\ Handled("ui.remove_all_tasks", confirm,
               IF Lower(confirm) = <<"y">> THEN "AttributeError" ELSE None)
    /\ UNCHANGED <<tasks, file, calls>>

\* any other choice: "Invalid choice! Please try again."
ui_invalid_choice ==
    /\ Handled("ui.run", "99", None)
    /\ UNCHANGED <<tasks, file, calls>>

\* choice "0": self.running = False, the loop ends and run() returns.
ui_exit ==
    /\ pc.at = "run"
    /\ ret' = Returned("ui.run", None)
    /\ pc' = At("finally", "0")
    /\ UNCHANGED <<tasks, file, calls>>

\* input() at any prompt raises: KeyboardInterrupt (Ctrl-C) is caught by
\* main's "except KeyboardInterrupt", EOFError by "except Exception".
ui_input_raises(exc) ==
    /\ pc.at = "run"
    /\ ret' = Raised("input", exc)
    /\ pc' = At("finally", IF exc = "KeyboardInterrupt"
                           THEN "KeyboardInterrupt" ELSE "Exception")
    /\ UNCHANGED <<tasks, file, calls>>

\* A shutdown that saves only when run() returned: the mutant of
\* main_finally.
main_finally_AfterReturn(outcome) ==
    /\ pc.at = "finally"
    /\ pc' = At("end", pc.exit)
    /\ IF pc.exit = "0"
       THEN save_tasks(outcome)
       ELSE UNCHANGED <<tasks, file, ret, calls>>

\* main(), lines 41-46: the finally clause calls save_tasks() and prints the
\* error if it raises; then main() ends (with SystemExit after sys.exit(1)).
main_finally(outcome) ==
    /\ pc.at = "finally"
    /\ pc' = At("end", pc.exit)
    /\ save_tasks(outcome)

MainInit ==
    /\ tasks = <<>>
    /\ file \in StartFiles
    /\ ret = Returned("__init__", None)
    /\ calls = 0
    /\ pc = At("start", None)

MainNext ==
    \/ \E t \in Clock : main_startup(t)
    \/ \E title \in TitleInputs : ui_add_task(title)
    \/ \E choice \in {"2", "3", "4"} : ui_view(choice)
    \/ \E choice \in {"5", "6"} : ui_view_tasks_by(choice)
    \/ \E choice \in {"7", "8", "9", "10", "12"} : ui_select_and_change(choice)
    \/ \E choice \in SubChoices \ {"4"} : ui_manage_categories(choice)
    \/ ui_view_statistics
    \/ \E search_type \in SubChoices, text \in QueryInputs \cup PriorityInputs :
            ui_search_tasks(search_type, text)
    \/ \E confirm \in ConfirmInputs : ui_remove_all_tasks(confirm)
    \/ ui_invalid_choice
    \/ ui_exit
    \/ \E exc \in {"KeyboardInterrupt", "EOFError"} : ui_input_raises(exc)
    \/ \E outcome \in {"ok", "open fails", "write fails"} :
            main_finally(outcome)

\* The program runs on: the startup and the finally clause are taken when
\* they are next; the user may stay at the menu for ever.
MainSpec ==
    /\ MainInit
    /\ [][MainNext]_vars
    /\ WF_vars(\E t \in Clock : main_startup(t))
    /\ WF_vars(\E outcome \in {"ok", "open fails", "write fails"} :
                    main_finally(outcome))

\* Every use of the store: driven directly by calls of its methods, or by a
\* run of main().
AnyUseSpec ==
    /\ Init \/ MainInit
    /\ [][(pc.at = "api" /\ Next) \/ MainNext]_vars
    /\ WF_vars(\E t \in Clock : main_startup(t))
    /\ WF_vars(\E outcome \in {"ok", "open fails", "write fails"} :
                    main_finally(outcome))

\* ------------------------------------------------------------------- claims
Blank(s) == Strip(s) = <<>>

\* C1: no two tasks in the store have the same id.
C1_UniqueIds ==
    \A i, j \in 1..Len(tasks) : i # j => tasks[i].id # tasks[j].id

\* C2: every task in the store has completed = false exactly when
\* completed_at is null.
C2_CompletedIffStamp ==
    \A i \in 1..Len(tasks) :
        (tasks[i].completed = FALSE) <=> (tasks[i].completed_at = None)

\* C5: every task in the store has a title that is neither empty nor
\* whitespace-only.
C5_TitleNeverBlank ==
    \A i \in 1..Len(tasks) : ~Blank(tasks[i].title)

\* C3: once save_tasks has written the file, loading that file (at any clock
\* reading) yields exactly the tasks that were saved, in the same order and
\* with the same id, title, description, priority, completed, created_at and
\* completed_at; and a load_tasks that directly follows such a save leaves
\* the store as it was.
C3_RoundTrip ==
    [][ /\ (ret'.op = "save_tasks" /\ ~ret'.raised) =>
            /\ file'.kind = "json"
            /\ \A i \in 1..Len(file'.data) : ~from_dict_raises(file'.data[i])
            /\ \A t \in Clock : LoadedTasks(file'.data, t) = tasks
        /\ (ret.op = "save_tasks" /\ ~ret.raised
            /\ ret'.op = "load_tasks") =>
            /\ ~ret'.raised
            /\ tasks' = tasks
      ]_vars

\* A load has just read back a file that a save wrote from a store of two
\* tasks, one of them completed.
C3_Witness ==
    /\ ret = Returned("load_tasks", None)
    /\ Len(tasks) = 2
    /\ file = FileJson(SavedData(tasks))
    /\ \E i \in 1..2 : tasks[i].completed /\ tasks[i].completed_at # None

\* C4: add_task with an empty or whitespace-only title raises ValueError and
\* leaves the store as it was.
C4_BlankAddRejected ==
    [][ (ret'.op = "add_task" /\ Blank(ret'.arg)) =>
            /\ ret'.raised
            /\ ret'.val = "ValueError"
            /\ tasks' = tasks
      ]_vars

\* An add with a whitespace-only title was rejected by a store that holds
\* two tasks.
C4_Witness ==
    /\ ret.op = "add_task"
    /\ ret.arg = <<" ", " ">>
    /\ ret.raised
    /\ Len(tasks) = 2

\* C6: get_stats has completed + pending = total, the three priority counts
\* sum to total, and completion_rate is completed/total*100 when total > 0
\* and 0 for the empty store.
C6_StatsSum ==
    LET st == get_stats(tasks)
    IN  /\ st.total = Len(tasks)
        /\ st.completed + st.pending = st.total
        /\ st.priority_counts[LOW] + st.priority_counts[MEDIUM]
             + st.priority_counts[HIGH] = st.total
        /\ IF st.total > 0
           THEN st.completion_rate.num * st.total
                    = st.completed * 100 * st.completion_rate.den
           ELSE st.completion_rate.num = 0

\* A store with a completed and a pending task of different priorities, one
\* of them loaded from a record whose priority was not in lower case.
C6_Witness ==
    /\ Len(tasks) = 2
    /\ get_stats(tasks).completed = 1
    /\ get_stats(tasks).pending = 1
    /\ get_stats(tasks).priority_counts[HIGH] = 1
    /\ get_stats(tasks).priority_counts[LOW] = 1

\* The fields of a task that update, mark_complete and mark_incomplete are
\* not to touch.
SameIdentity(a, b) == a.id = b.id /\ a.created_at = b.created_at

\* Every task but the i-th is as it was, and the store has the same length.
OthersUnchanged(i) ==
    /\ Len(tasks') = Len(tasks)
    /\ \A j \in 1..Len(tasks) : j # i => tasks'[j] = tasks[j]

\* C7: update overwrites title, description and priority only when the
\* parameter is present and non-blank (an absent or blank value leaves the
\* field as it was), ignores a priority outside low/medium/high, and never
\* changes id, completed, created_at or completed_at.
C7_UpdateOnlyNonBlank ==
    [][ ret'.op = "update" =>
          \A i \in 1..Len(tasks), title \in UpdateTitles,
             description \in UpdateDescriptions, priority \in UpdatePriorities :
              update(i, title, description, priority) =>
                  /\ OthersUnchanged(i)
                  /\ SameIdentity(tasks'[i], tasks[i])
                  /\ tasks'[i].completed = tasks[i].completed
                  /\ tasks'[i].completed_at = tasks[i].completed_at
                  /\ tasks'[i].title =
                        IF title.some /\ ~Blank(title.val)
                        THEN Strip(title.val) ELSE tasks[i].title
                  /\ (~description.some \/ Blank(description.val)) =>
                        tasks'[i].description = tasks[i].description
                  /\ (description.some /\ ~Blank(description.val)) =>
                        tasks'[i].description = description.val
                  /\ tasks'[i].priority =
                        IF priority.some /\ ~Blank(priority.val)
                           /\ Lower(priority.val) \in PriorityLevels
                        THEN Lower(priority.val) ELSE tasks[i].priority
      ]_vars

\* C8: after add_task with a non-blank title, get_task with the returned id
\* yields a task whose title is the trimmed input, whose priority is the
\* lower-cased input when that is low, medium or high and medium otherwise,
\* and which is not completed and has no completed_at; the new task is the
\* last element of the store.
C8_AddThenGet ==
    [][ ret'.op = "add_task" =>
          \A title \in AddTitles, description \in AddDescriptions,
             priority \in AddPriorities, t \in Clock :
              (~Blank(title) /\ add_task(title, description, priority, t)) =>
                  LET got == get_task(tasks', ret'.val)
                      new == tasks'[Len(tasks')]
                  IN  /\ ~ret'.raised
                      /\ tasks' = Append(tasks, new)
                      /\ new.id = ret'.val
                      /\ got # 0
                      /\ tasks'[got].title = Strip(title)
                      /\ tasks'[got].priority =
                            IF Lower(priority) \in PriorityLevels
                            THEN Lower(priority) ELSE MEDIUM
                      /\ tasks'[got].completed = FALSE
                      /\ tasks'[got].completed_at = None
      ]_vars

\* C9: delete_task removes exactly the first task in store order whose id is
\* the argument and returns True; with no such task it returns False and
\* leaves the store as it was.  The other tasks keep their values and their
\* order, and the size drops by one on True and by zero on False.
C9_DeleteFirstMatch ==
    [][ ret'.op = "delete_task" =>
          LET task_id == ret'.arg
          IN  /\ ~ret'.raised
              /\ IF \E i \in 1..Len(tasks) : tasks[i].id = task_id
                 THEN \E i \in 1..Len(tasks) :
                        /\ tasks[i].id = task_id
                        /\ \A j \in 1..(i - 1) : tasks[j].id # task_id
                        /\ Len(tasks') = Len(tasks) - 1
                        /\ \A j \in 1..(i - 1) : tasks'[j] = tasks[j]
                        /\ \A j \in i..Len(tasks') : tasks'[j] = tasks[j + 1]
                        /\ ret'.val = "True"
                 ELSE /\ tasks' = tasks
                      /\ ret'.val = "False"
      ]_vars

\* A delete returned True and left behind another task with the same id.
C9_Witness ==
    /\ ret.op = "delete_task"
    /\ ret.val = "True"
    /\ Len(tasks) = 1
    /\ tasks[1].id = ret.arg

\* C10: mark_incomplete leaves completed = false and completed_at = null
\* from any state of the task (so after mark_complete, and when repeated);
\* mark_complete leaves completed = true and completed_at non-null, also when
\* repeated; neither changes id, title, description, priority or created_at,
\* nor any other task.
C10_MarkCompleteIncomplete ==
    [][ /\ ret'.op = "mark_incomplete" =>
            \A i \in 1..Len(tasks) :
                mark_incomplete(i) =>
                    /\ OthersUnchanged(i)
                    /\ tasks'[i] = [tasks[i] EXCEPT !.completed = FALSE,
                                                    !.completed_at = None]
        /\ ret'.op = "mark_complete" =>
            \A i \in 1..Len(tasks), t \in Clock :
                mark_complete(i, t) =>
                    /\ OthersUnchanged(i)
                    /\ tasks'[i].completed = TRUE
                    /\ tasks'[i].completed_at # None
                    /\ tasks'[i] = [tasks[i] EXCEPT
                                       !.completed = tasks'[i].completed,
                                       !.completed_at = tasks'[i].completed_at]
      ]_vars

\* A task that was completed has been marked incomplete.
C10_Witness ==
    /\ ret = Returned("mark_incomplete", None)
    /\ calls >= 3
    /\ \E i \in 1..Len(tasks) :
        /\ tasks[i].completed = FALSE
        /\ tasks[i].completed_at = None
        /\ tasks[i].created_at = "0"

\* ------------------------------------------------------ claims C11 .. C17
\* The positions of the tasks of ts whose completed flag is the given one.
Positions(ts, flag) == {i \in 1..Len(ts) : ts[i].completed = flag}

\* The k-th smallest member of a set of positions.
Kth(S, k) == CHOOSE i \in S : Cardinality({j \in S : j < i}) = k - 1

\* The list out holds exactly the tasks of ts at the positions S, in the
\* order of ts.
ListsInOrder(out, ts, S) ==
    /\ Len(out) = Cardinality(S)
    /\ \A k \in 1..Len(out) : out[k] = ts[Kth(S, k)]

\* C12: in every store state get_pending_tasks returns exactly the tasks with
\* completed = false and get_completed_tasks exactly those with completed =
\* true, each in insertion order, and every task of get_all_tasks is in
\* exactly one of the two.
C12_Partition ==
    LET all == get_all_tasks(tasks)
        pending == get_pending_tasks(tasks)
        completed == get_completed_tasks(tasks)
    IN  /\ all = tasks
        /\ ListsInOrder(pending, all, Positions(all, FALSE))
        /\ ListsInOrder(completed, all, Positions(all, TRUE))
        /\ Positions(all, FALSE) \cup Positions(all, TRUE) = 1..Len(all)
        /\ Positions(all, FALSE) \cap Positions(all, TRUE) = {}
        /\ Len(pending) + Len(completed) = Len(all)

\* C12, the example: a task added to the empty store with the default
\* priority is the one pending task and has priority medium; marking the one
\* task of the store complete leaves one completed and no pending task;
\* deleting it leaves the store empty and the total of the statistics 0.
C12_Example ==
    [][ /\ (ret'.op = "add_task" /\ ~ret'.raised /\ tasks = <<>>) =>
            \A title \in AddTitles, description \in AddDescriptions,
               t \in Clock :
                add_task(title, description, MEDIUM, t) =>
                    /\ Len(get_pending_tasks(tasks')) = 1
                    /\ get_pending_tasks(tasks')[1].priority = MEDIUM
        /\ (ret'.op = "mark_complete" /\ Len(tasks) = 1) =>
            /\ Len(get_completed_tasks(tasks')) = 1
            /\ Len(get_pending_tasks(tasks')) = 0
        /\ (ret'.op = "delete_task" /\ Len(tasks) = 1
                /\ ret'.arg = tasks[1].id) =>
            /\ tasks' = <<>>
            /\ get_stats(tasks').total = 0
      ]_vars

\* C12 is the conjunction of the partition in every state and the example.
C12_PendingCompleted == []C12_Partition /\ C12_Example

\* A store holding a completed task between two pending ones.
C12_Witness ==
    /\ Len(tasks) = 3
    /\ ~tasks[1].completed
    /\ tasks[2].completed
    /\ ~tasks[3].completed
    /\ Len(get_pending_tasks(tasks)) = 2
    /\ Len(get_completed_tasks(tasks)) = 1

\* C17: a load that fails (file missing, content that does not parse, a
\* record lacking "id" or "title") leaves the store as it was; a load that
\* succeeds makes the store the file's records in file order, whatever the
\* store held before.
C17_LoadAllOrNothing ==
    [][ ret'.op = "load_tasks" =>
            IF \/ file.kind # "json"
               \/ \E i \in 1..Len(file.data) :
                    \/ "id" \notin DOMAIN file.data[i]
                    \/ "title" \notin DOMAIN file.data[i]
            THEN /\ ret'.raised
                 /\ tasks' = tasks
            ELSE /\ ~ret'.raised
                 /\ Len(tasks') = Len(file.data)
                 /\ \A i \in 1..Len(file.data) :
                        /\ tasks'[i].id = file.data[i].id
                        /\ tasks'[i].title = file.data[i].title
      ]_vars

\* A load failed on the second record of a file whose first record is good,
\* and the store still holds the task it held before.
C17_Witness ==
    /\ ret = Raised("load_tasks", "KeyError")
    /\ file.kind = "json"
    /\ Len(file.data) = 2
    /\ Len(tasks) = 1
    /\ tasks[1].title = <<"a">>
    /\ tasks[1].description # <<>> \/ tasks[1].id # "0"

\* The order the display policy asks for: incomplete tasks before completed
\* ones, within each by priority rank high, medium, low, ties in input order.
PolicyOrder(ts) ==
    sorted(ts, [i \in 1..Len(ts) |->
                    (IF ts[i].completed THEN 3 ELSE 0)
                        + (IF ts[i].priority = HIGH THEN 0
                           ELSE IF ts[i].priority = MEDIUM THEN 1 ELSE 2)])

\* C13, for display_tasks: the whole store, the pending and the completed
\* tasks are listed in the policy's order.
C13_DisplayTasks ==
    \A view \in {get_all_tasks(tasks), get_pending_tasks(tasks),
                 get_completed_tasks(tasks)} :
        /\ ~display_tasks(view).raised
        /\ display_tasks(view).listed = PolicyOrder(view)

\* C13, for sort_tasks_by_priority: it returns the policy's order.
C13_SortTasksByPriority == sort_tasks_by_priority(tasks) = PolicyOrder(tasks)

\* C13: wherever a list of tasks is rendered the order is: every incomplete
\* task before every completed one, within each by priority rank high,
\* medium, low, and tasks equal in both in the order of the input list.
C13_DisplayOrder == C13_DisplayTasks /\ C13_SortTasksByPriority

\* C11: when the file does not exist load_tasks raises FileNotFoundError, and
\* raises it for no other failure; main() then goes on with the empty store
\* and reaches the menu loop; and get_task of an id that no task has returns
\* None (position 0) rather than raising.
C11_FirstRunAndLookup ==
    /\ [][ (pc.at = "start" /\ pc'.at # "start") =>
            /\ file.kind = "absent" <=>
                    (ret'.raised /\ ret'.val = "FileNotFoundError")
            /\ file.kind = "absent" => (pc'.at = "run" /\ tasks' = <<>>)
         ]_vars
    /\ [](\A task_id \in IdInputs :
            (\A i \in 1..Len(tasks) : tasks[i].id # task_id) =>
                get_task(tasks, task_id) = 0)

\* C14: Remove All Tasks leaves the store empty when the user answers y, and
\* leaves it as it was when the user does not confirm.
C14_RemoveAllTasks ==
    [][ ret'.op = "ui.remove_all_tasks" =>
            /\ ret'.arg = <<"y">> => tasks' = <<>>
            /\ Lower(ret'.arg) # <<"y">> => tasks' = tasks
      ]_vars

\* C15: all_categories returns the categories, those of the tasks included,
\* and remove_category returns true or false; they are the calls behind
\* Manage Categories, entry 1 (get_all_categories) and entry 3
\* (get_all_categories, then remove_category), so both entries come back
\* from these calls with a value instead of an exception.
C15_Categories ==
    [][ (ret'.op = "ui.manage_categories" /\ ret'.arg \in {"1", "3"}) =>
            ~ret'.raised
      ]_vars

\* C16: the file changes only in a save_tasks call; in a run of main()
\* load_tasks is called once, as the first use of the still empty store and
\* before the menu loop, and save_tasks only by the finally clause; no pass
\* of the menu loop calls either or changes the file; the loop is left, by
\* choice 0, KeyboardInterrupt or any other exception, only into the finally
\* clause, whose one step is the call of save_tasks, and that call follows.
C16_FileTouchedTwice ==
    /\ [][ /\ file' # file => (calls' = calls + 1 /\ ret'.op = "save_tasks")
           /\ (pc.at # "api" /\ calls' # calls /\ ret'.op = "load_tasks") =>
                (pc.at = "start" /\ tasks = <<>> /\ calls = 0)
           /\ (pc.at # "api" /\ calls' # calls /\ ret'.op = "save_tasks") =>
                pc.at = "finally"
           /\ pc.at = "run" => (file' = file /\ calls' = calls)
           /\ (pc.at = "run" /\ pc'.at # "run") =>
                /\ pc'.at = "finally"
                /\ pc'.exit \in {"0", "KeyboardInterrupt", "Exception"}
           /\ pc.at = "finally" =>
                (ret'.op = "save_tasks" /\ calls' = calls + 1
                    /\ pc' = At("end", pc.exit))
         ]_vars
    /\ (pc.at = "finally") ~> (pc.at = "end" /\ ret.op = "save_tasks")

\* main() ended after an exception left the menu loop, and the save in the
\* finally clause has written the two loaded tasks.
C16_Witness ==
    /\ pc = At("end", "Exception")
    /\ ret = Returned("save_tasks", None)
    /\ Len(tasks) = 2
    /\ file = FileJson(SavedData(tasks))

====
